---- MODULE Spec2Model ----
(***************************************************************************)
(* Model of package render (src/render.go): the Martini middleware that    *)
(* compiles a directory of templates into an escaping (html/template) and  *)
(* a non-escaping (text/template) tree, hands every request a renderer     *)
(* over a recompiled or cloned pair of trees, and renders JSON, XML, HTML  *)
(* and TEXT responses, the last two with layout/yield composition into     *)
(* pooled buffers.                                                         *)
(*                                                                         *)
(* A string is a sequence of atoms: the atom "." , a path separator, or a  *)
(* chunk of text holding neither.  A template body is a sequence of nodes. *)
(***************************************************************************)
EXTENDS Integers, Sequences, FiniteSets, TLC

\* ------------------------------------------------------------------ strings

\* strings.Index(s, sep) for a one-atom sep: first position (0-based), or -1
Index(s, sep) ==
    IF \A i \in 1..Len(s) : s[i] # sep THEN -1
    ELSE (CHOOSE i \in 1..Len(s) : s[i] = sep /\ \A j \in 1..(i-1) : s[j] # sep) - 1

RECURSIVE Split(_, _)
\* strings.Split(s, sep): the pieces of s between the occurrences of sep
Split(s, sep) ==
    IF Index(s, sep) = -1 THEN <<s>>
    ELSE LET i == Index(s, sep) + 1
         IN  <<SubSeq(s, 1, i - 1)>> \o Split(SubSeq(s, i + 1, Len(s)), sep)

RECURSIVE Join(_, _)
\* strings.Join(pieces, sep)
Join(pieces, sep) ==
    IF Len(pieces) = 0 THEN <<>>
    ELSE IF Len(pieces) = 1 THEN pieces[1]
    ELSE pieces[1] \o <<sep>> \o Join(Tail(pieces), sep)

\* getExt: the part of s from its FIRST "." on ("" when s holds no ".")
getExt(s) ==
    IF Index(s, ".") = -1 THEN <<>>
    ELSE <<".">> \o Join(Tail(Split(s, ".")), ".")

\* filepath.ToSlash: every OS separator becomes "/"
ToSlash(s, sep) == [i \in 1..Len(s) |-> IF s[i] = sep THEN "/" ELSE s[i]]

\* ------------------------------------------------------------------ options

\* Options.Directory after prepareOptions (the default)
Directory == <<"templates">>

\* Options.Extensions as configured for this server
Extensions == << <<".", "tmpl">>, <<".", "html">> >>

\* Options.Layout as configured: a default layout is in effect
OptLayout == <<"L">>

\* Options.Extra as configured; a pair maps a key to a string
OptExtra == {<<"Title", "bob">>}

\* http.StatusInternalServerError
StatusInternalServerError == 500

\* bpool.NewBufferPool(64)
PoolCap == 64

\* prepareCharset: the Content-Type suffix (Options.Charset is left empty)
prepareCharset(charset) ==
    IF Len(charset) # 0 THEN <<"; charset=">> \o charset
    ELSE <<"; charset=", "UTF-8">>

compiledCharset == prepareCharset(<<>>)

\* ------------------------------------------------------------------ templates

\* template nodes: literal text, {{yield}}, {{current}}, {{.key}} and an
\* action that fails at run time (such as {{index .Title 9}})
Lit(a)   == [t |-> "lit", a |-> a]
Yield    == [t |-> "yield", a |-> ""]
Current  == [t |-> "current", a |-> ""]
Field(k) == [t |-> "field", a |-> k]
Fail     == [t |-> "fail", a |-> ""]

\* The files under the template directory: the components of each path
\* below the root (directories first, the file name last).
Path(f) ==
    CASE f = "fL"       -> << <<"L", ".", "tmpl">> >>
      [] f = "fM"       -> << <<"M", ".", "html">> >>
      [] f = "fContent" -> << <<"content", ".", "tmpl">> >>
      [] f = "fShow"    -> << <<"sub">>, <<"show", ".", "tmpl">> >>
      [] f = "fBad"     -> << <<"bad", ".", "tmpl">> >>
      [] f = "fDotted"  -> << <<"a", ".", "b", ".", "tmpl">> >>
      [] f = "fDotDir"  -> << <<"v1", ".", "0">>, <<"page", ".", "tmpl">> >>
      [] f = "fNotes"   -> << <<"notes", ".", "txt">> >>

FileIds == {"fL", "fM", "fContent", "fShow", "fBad", "fDotted", "fDotDir", "fNotes"}

\* the bodies a file can hold; fContent is the file edited while serving
Versions(f) ==
    CASE f = "fL"       -> { <<Lit("L["), Yield, Lit("]")>> }
      [] f = "fM"       -> { <<Current, Lit(":"), Yield>> }
      [] f = "fContent" -> { <<Lit("hi")>>, <<Lit("bye")>> }
      [] f = "fShow"    -> { <<Lit("<p>"), Field("Title")>> }
      [] f = "fBad"     -> { <<Lit("x"), Fail>> }
      [] f = "fDotted"  -> { <<Lit("dotted")>> }
      [] f = "fDotDir"  -> { <<Lit("page")>> }
      [] f = "fNotes"   -> { <<Lit("notes")>> }

\* filepath.Rel(dir, path): the path below the root, joined by the OS separator
Rel(f, sep) == Join(Path(f), sep)

\* the name compile registers a matching file under
TemplateName(f, sep) ==
    LET r   == Rel(f, sep)
        ext == getExt(r)
    IN  ToSlash(SubSeq(r, 1, Len(r) - Len(ext)), sep)

\* the walk callback's test: the file's ext equals one of the extensions
Matches(f, sep) == \E i \in 1..Len(Extensions) : getExt(Rel(f, sep)) = Extensions[i]

\* one parsed tree: the root placeholder "Martini" plus every matching file
ParseTree(d, sep) ==
    LET matched == {f \in FileIds : Matches(f, sep)}
        names   == {TemplateName(f, sep) : f \in matched}
    IN  [n \in names \cup {Directory} |->
            IF n \in names
            THEN d[CHOOSE f \in matched : TemplateName(f, sep) = n]
            ELSE <<Lit("Martini")>>]

\* compile: the markup tree and the plain-text tree, parsed from the same bytes
compile(d, sep) == [ht |-> ParseTree(d, sep), tt |-> ParseTree(d, sep)]

\* ------------------------------------------------------------------ values

\* a template binding: nil, or a map[string]interface{} held by the caller
\* (a reference into the heap of maps)
NilBinding    == [kind |-> "nil", ref |-> ""]
MapBinding(m) == [kind |-> "map", ref |-> m]

MapIds == {"m1"}
Keys   == {"Title"}
Absent == "<absent>"

\* for k, v := range extra { m[k] = v }   (a nil extra ranges over nothing)
Merge(m, extra) ==
    [k \in Keys |-> IF \E p \in extra : p[1] = k
                    THEN (CHOOSE p \in extra : p[1] = k)[2]
                    ELSE m[k]]

\* the value of {{.k}} against the data, with the heap the maps live in
FieldValue(data, heap, k) ==
    CASE data.kind = "nil"    -> "<no value>"
      [] data.kind = "map"    -> IF heap[data.ref][k] = Absent THEN "<no value>"
                                 ELSE heap[data.ref][k]

\* html/template's escaping of a printed string in element content
Escape(a) ==
    CASE a = "<b>"        -> "&lt;b&gt;"
      [] a = "<no value>" -> "&lt;no value&gt;"
      [] OTHER            -> a

\* ------------------------------------------------------------------ helpers bound in a tree

\* htmlhelperFuncs / texthelperFuncs: the compile-time yield and current
Placeholder == [kind |-> "placeholder", via |-> "", name |-> <<>>, data |-> NilBinding]

\* the closures addYieldHtml / addYieldText build over (name, binding); via
\* is the executor the yield closure calls (executeHtml or executeText)
Closure(via, name, binding) == [kind |-> "bound", via |-> via, name |-> name, data |-> binding]

\* addYieldHtml had it registered the closures in the plain-text tree
addYieldHtmlInTextTree(f, name, binding) == [f EXCEPT !.tt = Closure("html", name, binding)]

\* addYieldHtml on the renderer's function tables f = [ht, tt]
addYieldHtml(f, name, binding) == [f EXCEPT !.ht = Closure("html", name, binding)]

\* addYieldText on the renderer's function tables: the closure runs
\* executeText, and r.ht.Funcs registers it in the MARKUP tree
addYieldText(f, name, binding) == [f EXCEPT !.ht = Closure("text", name, binding)]

\* ------------------------------------------------------------------ execution

\* depth of nested executions followed before the run is taken to recurse
\* without end (a yield whose inner template invokes the same yield)
MaxExecDepth == 3

ErrNoLayout  == "yield called with no layout defined"
ErrUndefined == "template is undefined"
ErrRuntime   == "error calling index"
ErrMarshal   == "unsupported type"
Overflow     == "goroutine stack exceeds limit"

RECURSIVE ExecNodes(_, _, _, _, _)
RECURSIVE EvalNode(_, _, _, _, _)
RECURSIVE ExecuteTemplate(_, _, _, _, _)

\* executeHtml / executeText: bufpool.Get, then ExecuteTemplate in the tree
\* ("html" is r.ht, "text" is r.tt).  c = [ht, tt, f, heap] is what the
\* renderer reaches: its trees, its function tables and the callers' maps.
\* Result: the error ("" for none), the buffer's contents, the buffers taken.
ExecuteTemplate(c, tree, name, data, depth) ==
    LET tmpls == IF tree = "html" THEN c.ht ELSE c.tt
    IN  IF name \notin DOMAIN tmpls
        THEN [err |-> ErrUndefined, out |-> <<>>, gets |-> 1]
        ELSE LET x == ExecNodes(c, tree, tmpls[name], data, depth)
             IN  [err |-> x.err, out |-> x.out, gets |-> x.gets + 1]

\* the nodes of one template body in order, stopping at the first error
ExecNodes(c, tree, nodes, data, depth) ==
    IF nodes = <<>> THEN [err |-> "", out |-> <<>>, gets |-> 0]
    ELSE LET h == EvalNode(c, tree, Head(nodes), data, depth)
         IN  IF h.err # "" THEN h
             ELSE LET rest == ExecNodes(c, tree, Tail(nodes), data, depth)
                  IN  [err |-> rest.err, out |-> h.out \o rest.out,
                       gets |-> h.gets + rest.gets]

\* one node; yield and current are looked up in the executing tree's table
EvalNode(c, tree, node, data, depth) ==
    LET fn == IF tree = "html" THEN c.f.ht ELSE c.f.tt
        esc(a) == IF tree = "html" THEN Escape(a) ELSE a
    IN  CASE node.t = "lit"     -> [err |-> "", out |-> <<node.a>>, gets |-> 0]
          [] node.t = "field"   ->
                [err |-> "", out |-> <<esc(FieldValue(data, c.heap, node.a))>>, gets |-> 0]
          [] node.t = "fail"    -> [err |-> ErrRuntime, out |-> <<>>, gets |-> 0]
          [] node.t = "current" ->
                [err |-> "",
                 out |-> IF fn.kind = "bound"
                         THEN [i \in 1..Len(fn.name) |-> esc(fn.name[i])] ELSE <<>>,
                 gets |-> 0]
          [] node.t = "yield"   ->
                IF fn.kind = "placeholder"
                THEN [err |-> ErrNoLayout, out |-> <<>>, gets |-> 0]
                ELSE IF depth = 0
                THEN [err |-> Overflow, out |-> <<>>, gets |-> 0]
                ELSE ExecuteTemplate(c, fn.via, fn.name, fn.data, depth - 1)

executeHtml(c, name, binding) == ExecuteTemplate(c, "html", name, binding, MaxExecDepth)
executeText(c, name, binding) == ExecuteTemplate(c, "text", name, binding, MaxExecDepth)

\* ------------------------------------------------------------------ responses

\* Options.HTMLContentType after prepareOptions (the default, ContentHTML)
HTMLContentType == <<"text/html">>
ContentJSON == <<"application/json">>
ContentXML  == <<"text/xml">>

\* Options.IndentJSON, IndentXML, PrefixJSON and PrefixXML as configured
IndentJSON == FALSE
IndentXML  == TRUE
PrefixJSON == <<")]}',">>
PrefixXML  == <<"<?xml version='1.0'?>">>

\* what one call wrote to the http.ResponseWriter: the status passed to
\* WriteHeader, the Content-Type set and the bytes written; puts counts the
\* buffers handed back to the pool
NoWrite == [code |-> 0, ctype |-> <<>>, body |-> <<>>, puts |-> 0]

\* http.Error(w, text, code): a plain-text response holding the error's line
HttpError(text, code) ==
    [code |-> code, ctype |-> <<"text/plain", "; charset=utf-8">>, body |-> <<text>>, puts |-> 0]

\* json.Marshal / json.MarshalIndent
MarshalJSON(v, indent) ==
    CASE v = "fn"    -> [err |-> ErrMarshal, bytes |-> <<>>]
      [] v = "hello" -> [err |-> "", bytes |-> <<"\"hello\"">>]
      [] v = "obj"   -> [err |-> "",
                         bytes |-> IF indent THEN <<"{", "\n  ", "\"a\": 1", "\n", "}">>
                                   ELSE <<"{", "\"a\":1", "}">>]

\* xml.Marshal / xml.MarshalIndent
MarshalXML(v, indent) ==
    CASE v = "fn"    -> [err |-> ErrMarshal, bytes |-> <<>>]
      [] v = "hello" -> [err |-> "", bytes |-> <<"<string>", "hello", "</string>">>]
      [] v = "obj"   -> [err |-> "",
                         bytes |-> IF indent THEN <<"<obj>", "\n  ", "<a>1</a>", "\n", "</obj>">>
                                   ELSE <<"<obj>", "<a>1</a>", "</obj>">>]

\* renderer.JSON: the response it writes
JSONResponse(status, v) ==
    LET m == MarshalJSON(v, IndentJSON)
    IN  IF m.err # "" THEN HttpError(m.err, 500)
        ELSE [code |-> status, ctype |-> ContentJSON \o compiledCharset,
              body |-> (IF Len(PrefixJSON) > 0 THEN PrefixJSON ELSE <<>>) \o m.bytes,
              puts |-> 0]

\* renderer.XML: the response it writes
XMLResponse(status, v) ==
    LET m == MarshalXML(v, IndentXML)
    IN  IF m.err # "" THEN HttpError(m.err, 500)
        ELSE [code |-> status, ctype |-> ContentXML \o compiledCharset,
              body |-> (IF Len(PrefixXML) > 0 THEN PrefixXML ELSE <<>>) \o m.bytes,
              puts |-> 0]

\* the tail of HTML and TEXT had it copied the buffer out before looking at
\* the error: the requested status and the partly rendered bytes go out
TemplateResponseUnbuffered(status, x) ==
    [code |-> status, ctype |-> HTMLContentType \o compiledCharset,
     body |-> IF x.err # "" THEN x.out \o <<x.err>> ELSE x.out, puts |-> 1]

\* the tail of HTML and TEXT: after executeHtml / executeText returned x,
\* either http.Error and return, or header, status, io.Copy and bufpool.Put
TemplateResponse(status, x) ==
    IF x.err # "" THEN HttpError(x.err, StatusInternalServerError)
    ELSE [code |-> status, ctype |-> HTMLContentType \o compiledCharset,
          body |-> x.out, puts |-> 1]

\* prepareHTMLOptions had it fallen back field by field
prepareHTMLOptionsPerField(htmlOpt) ==
    IF Len(htmlOpt) > 0
    THEN [Layout |-> IF Len(htmlOpt[1].Layout) > 0 THEN htmlOpt[1].Layout ELSE OptLayout,
          Extra  |-> IF htmlOpt[1].Extra # {} THEN htmlOpt[1].Extra ELSE OptExtra]
    ELSE [Layout |-> OptLayout, Extra |-> OptExtra]

\* prepareHTMLOptions: the first per-call HTMLOptions as a whole, else the
\* pair (Options.Layout, Options.Extra)
prepareHTMLOptions(htmlOpt) ==
    IF Len(htmlOpt) > 0 THEN htmlOpt[1]
    ELSE [Layout |-> OptLayout, Extra |-> OptExtra]

\* the head of HTML had it put the compile-time helpers back when the call
\* has no layout
HTMLPrepareResetting(f, heap, name, binding, htmlOpt) ==
    LET opt == prepareHTMLOptions(htmlOpt)
        lay == Len(opt.Layout) > 0
    IN  [f    |-> IF lay THEN addYieldHtml(f, name, binding)
                  ELSE [f EXCEPT !.ht = Placeholder],
         name |-> IF lay THEN opt.Layout ELSE name,
         heap |-> IF binding.kind = "map"
                  THEN [heap EXCEPT ![binding.ref] = Merge(@, opt.Extra)]
                  ELSE heap]

\* the head of HTML: options, addYieldHtml and the swap to the layout name,
\* then the merge of the extra pairs into a map binding (the binding IS the
\* caller's map: temp_binding aliases it)
HTMLPrepare(f, heap, name, binding, htmlOpt) ==
    LET opt == prepareHTMLOptions(htmlOpt)
        lay == Len(opt.Layout) > 0
    IN  [f    |-> IF lay THEN addYieldHtml(f, name, binding) ELSE f,
         name |-> IF lay THEN opt.Layout ELSE name,
         heap |-> IF binding.kind = "map"
                  THEN [heap EXCEPT ![binding.ref] = Merge(@, opt.Extra)]
                  ELSE heap]

\* the head of TEXT: options, addYieldText and the swap to the layout name
TEXTPrepare(f, heap, name, binding, htmlOpt) ==
    LET opt == prepareHTMLOptions(htmlOpt)
        lay == Len(opt.Layout) > 0
    IN  [f    |-> IF lay THEN addYieldText(f, name, binding) ELSE f,
         name |-> IF lay THEN opt.Layout ELSE name,
         heap |-> heap]

\* bpool: Get takes a pooled buffer or allocates; Put keeps at most PoolCap
PoolAfter(free, gets, puts) ==
    LET left == IF free > gets THEN free - gets ELSE 0
    IN  IF left + puts > PoolCap THEN PoolCap ELSE left + puts

\* ------------------------------------------------------------------ state

VARIABLES
    env,       \* martini.Env: "development" or "production"
    osSep,     \* filepath.Separator of the host
    disk,      \* the template directory: file -> body
    master,    \* ht, tt compiled by Renderer() at setup
    funcs,     \* function tables: "master" or a request -> [ht, tt]
    rend,      \* request -> its renderer [ht, tt, common], or None
    maps,      \* the callers' map[string]interface{} values
    pool,      \* bufpool: the number of buffers it holds
    inflight,  \* request -> the HTML call between its rebinding and its execution
    resp,      \* the last completed call: its arguments and what it wrote
    hist       \* history: disk at setup and at each request, last layout call

vars == <<env, osSep, disk, master, funcs, rend, maps, pool, inflight, resp, hist>>

None == [kind |-> "none"]
Reqs == {"r1", "r2"}

Statuses == {200, 404}
Names    == {<<"M">>, <<"content">>, <<"sub", "/", "show">>, <<"bad">>, <<"nope">>}
Bindings == {NilBinding} \cup {MapBinding(m) : m \in MapIds}
Layouts  == {<<>>, <<"M">>}
Extras   == {{}, {<<"Title", "new">>}}
HTMLOpts == {<<>>} \cup {<<[Layout |-> l, Extra |-> e]>> : l \in Layouts, e \in Extras}
Values   == {"hello", "obj", "fn"}

\* the contents the directory can have: every file in one of its versions
Disks ==
    {[f \in FileIds |-> IF f = "fContent" THEN b ELSE CHOOSE x \in Versions(f) : TRUE] :
        b \in Versions("fContent")}

NoCall ==
    [op |-> "none", req |-> "", status |-> 0, name |-> <<>>, binding |-> NilBinding,
     htmlOpt |-> <<>>, v |-> "", before |-> <<>>, err |-> "", w |-> NoWrite,
     gets |-> 0, crashed |-> FALSE]

Init ==
    /\ env \in {"development", "production"}
    /\ osSep = "/"
    /\ disk \in Disks
    /\ master = compile(disk, osSep)
    /\ funcs = [t \in {"master"} \cup Reqs |-> [ht |-> Placeholder, tt |-> Placeholder]]
    /\ rend = [r \in Reqs |-> None]
    /\ maps = [m \in MapIds |-> [k \in Keys |-> IF k = "Title" THEN "<b>" ELSE Absent]]
    /\ pool = 0
    /\ inflight = [r \in Reqs |-> None]
    /\ resp = NoCall
    /\ hist = [setup |-> disk, request |-> [r \in Reqs |-> disk],
               layout |-> [r \in Reqs |-> None]]

\* the process is up and the last call's record has been taken
Up == resp = NoCall

\* request r holds a renderer that is between calls
Ready(r) == Up /\ rend[r] # None /\ inflight[r] = None

\* Clone had it shared the master's function table instead of copying it
CloneSharingFuncs(r) == [ht |-> master.ht, tt |-> master.tt, common |-> "master"]

\* ht.Clone() / tt.Clone() for request r: the parsed templates are shared,
\* the function table is a copy of the master's and is the request's own
Clone(r) == [ht |-> master.ht, tt |-> master.tt, common |-> r]

\* the handler had it cloned the setup-time trees whatever the environment
NewRendererAlwaysCloned(r) == Clone(r)

\* the handler Renderer() returns, run at the start of request r: a fresh
\* compile in development, a clone of the setup-time trees otherwise
NewRenderer(r) ==
    IF env = "development"
    THEN [ht |-> compile(disk, osSep).ht, tt |-> compile(disk, osSep).tt, common |-> r]
    ELSE Clone(r)

Request(r) ==
    /\ Up
    /\ inflight[r] = None
    /\ rend' = [rend EXCEPT ![r] = NewRenderer(r)]
    /\ funcs' = [funcs EXCEPT ![r] = IF env = "development"
                                     THEN [ht |-> Placeholder, tt |-> Placeholder]
                                     ELSE funcs["master"]]
    /\ hist' = [hist EXCEPT !.request[r] = disk, !.layout[r] = None]
    /\ UNCHANGED <<env, osSep, disk, master, maps, pool, inflight, resp>>

\* a template file is edited on disk
EditFile(f, b) ==
    /\ Up
    /\ b \in Versions(f) /\ b # disk[f]
    /\ disk' = [disk EXCEPT ![f] = b]
    /\ UNCHANGED <<env, osSep, master, funcs, rend, maps, pool, inflight, resp, hist>>

\* what renderer r reaches when it executes, given its tables and the heap
Ctx(r, f, heap) == [ht |-> rend[r].ht, tt |-> rend[r].tt, f |-> f, heap |-> heap]

\* the call record of a template render that executed with result x; before
\* is the heap of maps as the call found it
Rendered(op, r, status, name, binding, htmlOpt, before, x) ==
    [op |-> op, req |-> r, status |-> status, name |-> name, binding |-> binding,
     htmlOpt |-> htmlOpt, v |-> "", before |-> before, err |-> x.err,
     w |-> IF x.err = Overflow THEN NoWrite ELSE TemplateResponse(status, x),
     gets |-> x.gets, crashed |-> x.err = Overflow]

\* the history of layout renders on r's renderer
Noted(op, r, name, binding, htmlOpt) ==
    IF Len(prepareHTMLOptions(htmlOpt).Layout) > 0
    THEN [hist EXCEPT !.layout[r] = [kind |-> "call", op |-> op, name |-> name, data |-> binding]]
    ELSE hist

\* renderer.HTML
HTML(r, status, name, binding, htmlOpt) ==
    /\ Ready(r)
    /\ \E p \in {HTMLPrepare(funcs[rend[r].common], maps, name, binding, htmlOpt)} :
       \E x \in {executeHtml(Ctx(r, p.f, p.heap), p.name, binding)} :
       \E call \in {Rendered("HTML", r, status, name, binding, htmlOpt, maps, x)} :
           /\ funcs' = [funcs EXCEPT ![rend[r].common] = p.f]
           /\ maps' = p.heap
           /\ pool' = PoolAfter(pool, call.gets, call.w.puts)
           /\ resp' = call
    /\ hist' = Noted("HTML", r, name, binding, htmlOpt)
    /\ UNCHANGED <<env, osSep, disk, master, rend, inflight>>

\* renderer.TEXT
TEXT(r, status, name, binding, htmlOpt) ==
    /\ Ready(r)
    /\ \E p \in {TEXTPrepare(funcs[rend[r].common], maps, name, binding, htmlOpt)} :
       \E x \in {executeText(Ctx(r, p.f, p.heap), p.name, binding)} :
       \E call \in {Rendered("TEXT", r, status, name, binding, htmlOpt, maps, x)} :
           /\ funcs' = [funcs EXCEPT ![rend[r].common] = p.f]
           /\ maps' = p.heap
           /\ pool' = PoolAfter(pool, call.gets, call.w.puts)
           /\ resp' = call
    /\ hist' = Noted("TEXT", r, name, binding, htmlOpt)
    /\ UNCHANGED <<env, osSep, disk, master, rend, inflight>>

\* renderer.JSON
JSON(r, status, v) ==
    /\ Ready(r)
    /\ resp' = [NoCall EXCEPT !.op = "JSON", !.req = r, !.status = status, !.v = v,
                              !.before = maps, !.w = JSONResponse(status, v),
                              !.err = MarshalJSON(v, IndentJSON).err]
    /\ UNCHANGED <<env, osSep, disk, master, funcs, rend, maps, pool, inflight, hist>>

\* renderer.XML
XML(r, status, v) ==
    /\ Ready(r)
    /\ resp' = [NoCall EXCEPT !.op = "XML", !.req = r, !.status = status, !.v = v,
                              !.before = maps, !.w = XMLResponse(status, v),
                              !.err = MarshalXML(v, IndentXML).err]
    /\ UNCHANGED <<env, osSep, disk, master, funcs, rend, maps, pool, inflight, hist>>

\* the record of the last call is taken (by the client reading the response);
\* a call that overflowed the stack killed the process, and nothing follows
Taken ==
    /\ resp # NoCall
    /\ ~resp.crashed
    /\ resp' = NoCall
    /\ UNCHANGED <<env, osSep, disk, master, funcs, rend, maps, pool, inflight, hist>>

\* one request at a time: requests follow one another on a single connection
Next ==
    \/ Request("r1")
    \/ \E f \in FileIds, b \in UNION {Versions(g) : g \in FileIds} : EditFile(f, b)
    \/ \E s \in Statuses, n \in Names, b \in Bindings, o \in HTMLOpts : HTML("r1", s, n, b, o)
    \/ \E s \in Statuses, n \in Names, b \in Bindings, o \in HTMLOpts : TEXT("r1", s, n, b, o)
    \/ \E s \in Statuses, v \in Values : JSON("r1", s, v)
    \/ \E s \in Statuses, v \in Values : XML("r1", s, v)
    \/ Taken

Spec == Init /\ [][Next]_vars

\* ------------------------------------------------------------------ concurrent requests

\* Two requests in flight on their own goroutines.  A layout render by HTML
\* is two steps here, so that another request's steps can fall between the
\* rebinding of yield/current and the execution that calls them.

ConcNames    == {<<"content">>, <<"sub", "/", "show">>}
ConcBindings == {NilBinding}

\* HTML up to and including the merge: options, addYieldHtml, layout name
HTMLBegin(r, name, binding, htmlOpt) ==
    /\ Ready(r)
    /\ \E p \in {HTMLPrepare(funcs[rend[r].common], maps, name, binding, htmlOpt)} :
           /\ funcs' = [funcs EXCEPT ![rend[r].common] = p.f]
           /\ maps' = p.heap
           /\ inflight' = [inflight EXCEPT ![r] =
                  [kind |-> "call", name |-> name, binding |-> binding, htmlOpt |-> htmlOpt,
                   exec |-> p.name, before |-> maps,
                   over |-> {q \in Reqs : inflight[q] # None}]]
    /\ hist' = Noted("HTML", r, name, binding, htmlOpt)
    /\ UNCHANGED <<env, osSep, disk, master, rend, pool, resp>>

\* HTML from executeHtml on: execution, the response, the buffer's return
HTMLEnd(r, status) ==
    /\ Up
    /\ inflight[r] # None
    /\ \E c \in {inflight[r]} :
       \E x \in {executeHtml(Ctx(r, funcs[rend[r].common], maps), c.exec, c.binding)} :
       \E call \in {Rendered("HTML", r, status, c.name, c.binding, c.htmlOpt, c.before, x)} :
           /\ pool' = PoolAfter(pool, call.gets, call.w.puts)
           /\ resp' = call
    /\ inflight' = [inflight EXCEPT ![r] = None]
    /\ UNCHANGED <<env, osSep, disk, master, funcs, rend, maps, hist>>

InitConc ==
    /\ env \in {"development", "production"}
    /\ osSep \in {"/", "\\"}
    /\ disk \in Disks
    /\ master = compile(disk, osSep)
    /\ funcs = [t \in {"master"} \cup Reqs |-> [ht |-> Placeholder, tt |-> Placeholder]]
    /\ rend = [r \in Reqs |-> None]
    /\ maps = [m \in MapIds |-> [k \in Keys |-> IF k = "Title" THEN "<b>" ELSE Absent]]
    /\ pool = 0
    /\ inflight = [r \in Reqs |-> None]
    /\ resp = NoCall
    /\ hist = [setup |-> disk, request |-> [r \in Reqs |-> disk],
               layout |-> [r \in Reqs |-> None]]

NextConc ==
    \/ \E r \in Reqs : Request(r)
    \/ \E r \in Reqs, n \in ConcNames, b \in ConcBindings, o \in HTMLOpts :
          HTMLBegin(r, n, b, o)
    \/ \E r \in Reqs, s \in Statuses : HTMLEnd(r, s)
    \/ Taken

SpecConc == InitConc /\ [][NextConc]_vars

\* ------------------------------------------------------------------ what a render should show

\* the layout in effect for a recorded call, read off its arguments
LayoutOf(call) == prepareHTMLOptions(call.htmlOpt).Layout

\* no node of the body fails at run time
Clean(nodes) == \A i \in 1..Len(nodes) : nodes[i].t # "fail"

\* the body does not invoke yield
Yieldless(nodes) == \A i \in 1..Len(nodes) : nodes[i].t # "yield"

RECURSIVE Shown(_, _, _, _, _, _)
\* the text of a body: literals as written, {{.k}} as the value of k in the
\* data (escaped in the markup tree), every yield as inner, current as cur
Shown(tree, nodes, data, heap, inner, cur) ==
    IF nodes = <<>> THEN <<>>
    ELSE LET n == Head(nodes)
             v == FieldValue(data, heap, n.a)
             piece == CASE n.t = "lit"     -> <<n.a>>
                        [] n.t = "field"   -> IF tree = "html" THEN <<Escape(v)>> ELSE <<v>>
                        [] n.t = "yield"   -> inner
                        [] n.t = "current" -> cur
                        [] OTHER           -> <<>>
         IN  piece \o Shown(tree, Tail(nodes), data, heap, inner, cur)

\* template n of the tree renders on its own: it exists, is clean, yields nothing
Renders(tmpls, n) == n \in DOMAIN tmpls /\ Clean(tmpls[n]) /\ Yieldless(tmpls[n])

\* the rendering of template n alone, bound to data
Alone(tree, tmpls, n, data, heap, cur) == Shown(tree, tmpls[n], data, heap, <<>>, cur)

\* layout l with every yield replaced by the rendering of n bound to data
Spliced(tree, tmpls, l, n, data, heap) ==
    Shown(tree, tmpls[l], data, heap, Alone(tree, tmpls, n, data, heap, n), n)

\* ------------------------------------------------------------------ claims

\* C1: HTML(status, n, v) with a non-empty layout L in effect, n and L both
\* in the markup tree, never answers with the "yield called with no layout
\* defined" error; and when n renders (no run-time error in n or L, n not
\* itself yielding) it writes the given status and the layout's output with
\* each yield replaced by the rendering of n with v (v as it stands when the
\* layout executes), e.g. "L[" "hi" "]" for layout L and content "hi".
C1_HtmlLayoutSplices ==
    (/\ resp.op = "HTML"
     /\ Len(LayoutOf(resp)) > 0
     /\ resp.name \in DOMAIN rend[resp.req].ht
     /\ LayoutOf(resp) \in DOMAIN rend[resp.req].ht)
    => LET t == rend[resp.req].ht
       IN  /\ resp.err # ErrNoLayout
           /\ resp.w.body # <<ErrNoLayout>>
           /\ (Renders(t, resp.name) /\ Clean(t[LayoutOf(resp)]))
              => /\ resp.w.code = resp.status
                 /\ resp.w.body =
                      Spliced("html", t, LayoutOf(resp), resp.name, resp.binding, maps)

\* C1 witness: the documented scenario, layout "L[{{yield}}]" around content "hi"
C1_Witness ==
    /\ resp.op = "HTML" /\ resp.name = <<"content">> /\ LayoutOf(resp) = <<"L">>
    /\ resp.status = 200 /\ resp.w.code = 200
    /\ resp.w.body = <<"L[", "hi", "]">>

\* C2: TEXT(status, n, v) with a non-empty layout L in effect, n and L in
\* the plain-text tree and n rendering, writes the given status and L's
\* plain-text output with each yield replaced by the plain-text rendering of
\* n with v (not a 500).
C2_TextLayoutSplices ==
    (/\ resp.op = "TEXT"
     /\ Len(LayoutOf(resp)) > 0
     /\ resp.name \in DOMAIN rend[resp.req].tt
     /\ LayoutOf(resp) \in DOMAIN rend[resp.req].tt
     /\ Renders(rend[resp.req].tt, resp.name)
     /\ Clean(rend[resp.req].tt[LayoutOf(resp)]))
    => /\ resp.w.code = resp.status
       /\ resp.w.body =
            Spliced("text", rend[resp.req].tt, LayoutOf(resp), resp.name, resp.binding, maps)

\* C3: whenever the marshalling or the template execution of a JSON, XML,
\* HTML or TEXT call returns an error, the response is status 500 with the
\* error's text as its whole body: not the requested status, not the success
\* Content-Type, no prefix and no partly rendered bytes.
C3_FailureIs500 ==
    (resp.op \in {"JSON", "XML", "HTML", "TEXT"} /\ resp.err # "" /\ ~resp.crashed)
    => /\ resp.w.code = 500
       /\ resp.w.body = <<resp.err>>
       /\ resp.w.ctype \notin {ContentJSON \o compiledCharset, ContentXML \o compiledCharset,
                               HTMLContentType \o compiledCharset}

\* C3 witness: a layout render whose inner template fails after the layout
\* and the inner template have both written to their buffers
C3_Witness ==
    /\ resp.op = "HTML" /\ resp.name = <<"bad">> /\ LayoutOf(resp) = <<"L">>
    /\ resp.err = ErrRuntime /\ resp.status = 200 /\ resp.w.code = 500

\* C5: every buffer a completed HTML or TEXT call took from the pool has
\* been handed back when the call returns.
C5_BuffersReturned ==
    (resp.op \in {"HTML", "TEXT"} /\ ~resp.crashed) => resp.gets = resp.w.puts

\* C6: a render in development shows the templates as they were on disk when
\* its request began (an edit made before the request is reflected), a render
\* in production shows them as they were at setup.
C6_EditsSeenOnlyInDevelopment ==
    (/\ resp.op \in {"HTML", "TEXT"}
     /\ Len(LayoutOf(resp)) = 0
     /\ resp.name = <<"content">>)
    => LET seen == IF env = "development" THEN hist.request[resp.req] ELSE hist.setup
       IN  resp.w.body = Shown("text", seen["fContent"], NilBinding, maps, <<>>, <<>>)

\* C6 witness: development, the file was edited after setup and before the
\* request, and the render shows the edited body
C6_Witness ==
    /\ env = "development"
    /\ resp.op = "HTML" /\ resp.name = <<"content">> /\ Len(LayoutOf(resp)) = 0
    /\ hist.request[resp.req]["fContent"] # hist.setup["fContent"]
    /\ resp.w.code = resp.status

\* a file name ends in the extension
HasSuffix(s, ext) == Len(s) >= Len(ext) /\ SubSeq(s, Len(s) - Len(ext) + 1, Len(s)) = ext

\* C7: every file whose name ends in a configured extension is registered in
\* both trees under its relative path with that extension stripped and the
\* separators turned into "/" (also when the path holds a further "."), with
\* the file's contents, and nothing else is registered from the directory.
C7_CompileRegistersBySuffix ==
    LET r(f)    == Rel(f, osSep)
        ext(f)  == CHOOSE e \in {Extensions[i] : i \in 1..Len(Extensions)} : HasSuffix(r(f), e)
        tpl(f)  == \E i \in 1..Len(Extensions) : HasSuffix(r(f), Extensions[i])
        name(f) == ToSlash(SubSeq(r(f), 1, Len(r(f)) - Len(ext(f))), osSep)
    IN  /\ \A f \in FileIds : tpl(f) =>
              /\ name(f) \in DOMAIN master.ht /\ master.ht[name(f)] = hist.setup[f]
              /\ name(f) \in DOMAIN master.tt /\ master.tt[name(f)] = hist.setup[f]
        /\ \A n \in (DOMAIN master.ht \cup DOMAIN master.tt) \ {Directory} :
              \E f \in FileIds : tpl(f) /\ name(f) = n

\* the body invokes current nowhere
Currentless(nodes) == \A i \in 1..Len(nodes) : nodes[i].t # "current"

\* C8: HTML merges the effective extra pairs into a map binding before the
\* template executes (an extra value replaces the value of an equal key), on
\* a copy: after the call the caller's map holds what it held before.  TEXT
\* merges nothing.
C8_MergeOnACopy ==
    (resp.op \in {"HTML", "TEXT"} /\ resp.binding.kind = "map" /\ ~resp.crashed)
    => LET m      == resp.binding.ref
           merged == [resp.before EXCEPT ![m] = Merge(@, prepareHTMLOptions(resp.htmlOpt).Extra)]
           alone  == /\ Len(LayoutOf(resp)) = 0
                     /\ Renders(rend[resp.req].ht, resp.name)
                     /\ Currentless(rend[resp.req].ht[resp.name])
       IN  /\ maps[m] = resp.before[m]
           /\ (resp.op = "HTML" /\ alone) =>
                 resp.w.body = Alone("html", rend[resp.req].ht, resp.name, resp.binding, merged, <<>>)
           /\ (resp.op = "TEXT" /\ alone) =>
                 resp.w.body = Alone("text", rend[resp.req].tt, resp.name, resp.binding, resp.before, <<>>)

\* C9: on a renderer whose last layout render was HTML(_, n1, v1), an HTML
\* call with no layout in effect for a template that invokes yield does not
\* fail with "yield called with no layout defined": it splices in the
\* rendering of n1 with v1 and current gives n1, however many calls without
\* a layout came in between.  On a renderer that never rendered with a layout
\* the same call is a 500 with that error text.
C9_YieldStaysBound ==
    (/\ resp.op = "HTML"
     /\ Len(LayoutOf(resp)) = 0
     /\ resp.name \in DOMAIN rend[resp.req].ht
     /\ ~Yieldless(rend[resp.req].ht[resp.name])
     /\ Clean(rend[resp.req].ht[resp.name]))
    => LET t    == rend[resp.req].ht
           last == hist.layout[resp.req]
       IN  /\ last = None => (resp.w.code = 500 /\ resp.w.body = <<ErrNoLayout>>)
           /\ (last # None /\ last.op = "HTML") =>
                 /\ resp.err # ErrNoLayout
                 /\ Renders(t, last.name) =>
                       /\ resp.w.code = resp.status
                       /\ resp.w.body =
                            Shown("html", t[resp.name], resp.binding, maps,
                                  Alone("html", t, last.name, last.data, maps, last.name),
                                  last.name)

\* C9 witness: a layout render of "content", then a render of M with no
\* layout, which shows content's name and output
C9_Witness ==
    /\ resp.op = "HTML" /\ resp.name = <<"M">> /\ Len(LayoutOf(resp)) = 0
    /\ hist.layout[resp.req] # None
    /\ hist.layout[resp.req].op = "HTML"
    /\ hist.layout[resp.req].name = <<"content">>
    /\ resp.w.code = resp.status
    /\ resp.w.body = <<"content", ":", "hi">>

\* C10: the layout and the extra pairs of a call are those of the first
\* HTMLOptions given, both of them, and Options.Layout / Options.Extra only
\* when none is given: an empty Layout given renders the template with no
\* layout, a nil Extra given merges nothing.  (For TEXT: the template alone
\* when the layout so taken is empty.)
C10_OptionsTakenWhole ==
    (/\ resp.op \in {"HTML", "TEXT"}
     /\ ~resp.crashed
     /\ Renders(rend[resp.req].ht, resp.name)
     /\ Currentless(rend[resp.req].ht[resp.name]))
    => LET given == Len(resp.htmlOpt) > 0
           lay   == IF given THEN resp.htmlOpt[1].Layout ELSE OptLayout
           extra == IF given THEN resp.htmlOpt[1].Extra ELSE OptExtra
           b     == resp.binding
           heap  == IF resp.op = "HTML" /\ b.kind = "map"
                    THEN [resp.before EXCEPT ![b.ref] = Merge(@, extra)]
                    ELSE resp.before
       IN  IF resp.op = "HTML"
           THEN resp.w.body =
                  IF Len(lay) = 0
                  THEN Alone("html", rend[resp.req].ht, resp.name, b, heap, <<>>)
                  ELSE Spliced("html", rend[resp.req].ht, lay, resp.name, b, heap)
           ELSE Len(lay) = 0 =>
                  resp.w.body = Alone("text", rend[resp.req].tt, resp.name, b, heap, <<>>)

\* C10 witness: HTMLOptions with an empty Layout and a nil Extra, given while
\* Options has both, on a map binding: no layout around, nothing merged
C10_Witness ==
    /\ resp.op = "HTML" /\ resp.name = <<"sub", "/", "show">>
    /\ resp.htmlOpt = <<[Layout |-> <<>>, Extra |-> {}]>>
    /\ Len(OptLayout) > 0 /\ OptExtra # {}
    /\ resp.binding = MapBinding("m1")
    /\ resp.before["m1"]["Title"] = "<b>"
    /\ resp.w.body = <<"<p>", "&lt;b&gt;">>

\* C4: with two requests in flight, the master's yield and current stay the
\* compile-time placeholders, the helpers of each request's tree are the
\* ones that request bound, and every layout render shows its own inner
\* template and its own name, whatever the other request does in between.
C4_ClonesIsolated ==
    /\ funcs["master"] = [ht |-> Placeholder, tt |-> Placeholder]
    /\ \A r \in Reqs :
          (inflight[r] # None /\ Len(LayoutOf(inflight[r])) > 0)
          => funcs[rend[r].common].ht = Closure("html", inflight[r].name, inflight[r].binding)
    /\ (/\ resp.op = "HTML"
        /\ Len(LayoutOf(resp)) > 0
        /\ Renders(rend[resp.req].ht, resp.name)
        /\ LayoutOf(resp) \in DOMAIN rend[resp.req].ht
        /\ Clean(rend[resp.req].ht[LayoutOf(resp)]))
       => /\ resp.w.code = resp.status
          /\ resp.w.body = Spliced("html", rend[resp.req].ht, LayoutOf(resp),
                                   resp.name, resp.binding, maps)

\* C4 witness: in production, a layout render completes while the other
\* request, which rebound its yield to a different template after this one
\* did, has not executed yet
C4_Witness ==
    /\ env = "production"
    /\ resp.op = "HTML" /\ Len(LayoutOf(resp)) > 0 /\ resp.w.code = resp.status
    /\ \E q \in Reqs \ {resp.req} :
          /\ inflight[q] # None
          /\ resp.req \in inflight[q].over
          /\ Len(LayoutOf(inflight[q])) > 0
          /\ inflight[q].name # resp.name

====
